---- MODULE Spec2Model ----
(***************************************************************************)
(* Model of dem2ticks.py: the alive-range extraction of one player         *)
(* (DemoPOVs.get_player_alive_ranges), the per-tick frame decoding         *)
(* (PlayerInfoFrame.get_player_info, PlayerActionFrame.get_player_action,  *)
(* PlayerFrame) and the assembly of rounds and of the player's POV         *)
(* (PlayerRoundFrames, PlayerPOVs, DemoPOVs._init_players).                *)
(*                                                                         *)
(* The telemetry source (demoparser2) is outside the repository.  Its      *)
(* tables are taken as the code reads them: the index label of a row of    *)
(* the tick table is the tick of a liveliness sample, the index label of   *)
(* a row of the round_end table is the tick of a round-end marker.         *)
(***************************************************************************)
EXTENDS Integers, Sequences, FiniteSets

(* ---------------------------- bounds ---------------------------------- *)
MaxTick == 3        \* near ticks are 0 .. MaxTick
FarTicks == 2       \* far ticks are MAX_LEN + 1 .. MAX_LEN + FarTicks
MaxSamples == 4     \* at most this many liveliness samples of the player
MaxMarkers == 2     \* at most this many round-end markers

(* ------------------------ program constants --------------------------- *)
MAX_LEN == 128 * (55 + 60 + 15 + 15 + 45)
None == -1          \* Python's None for start_tick; ticks are >= 0
SteamId == 7        \* the target player's steamid

Ticks == (0 .. MaxTick) \cup {MAX_LEN + k : k \in 1 .. FarTicks}

VARIABLES
    player_data,          \* the player's rows: sequence of [tick, is_alive]
    round_end,            \* index of round_end_df: ascending marker ticks
    i,                    \* position of the loop over player_data
    start_tick,           \* pending start of an alive range, or None
    last_round_end_tick,  \* last marker already crossed
    alive_ranges,         \* ranges collected by the pass (before the filter)
    ranges,               \* list returned by get_player_alive_ranges
    r,                    \* position of the loop over ranges
    tick,                 \* position of the loop over a range's ticks
    player_frames,        \* PlayerRoundFrames.player_frames being built
    round_frames,         \* PlayerPOVs.round_frames
    players,              \* DemoPOVs.players
    error,                \* the exception that ended the construction
    pc                    \* where the program is

vars == <<player_data, round_end, i, start_tick, last_round_end_tick,
          alive_ranges, ranges, r, tick, player_frames, round_frames,
          players, error, pc>>

(* ----------------------------- inputs --------------------------------- *)
Min(S) == CHOOSE x \in S : \A y \in S : x <= y

RECURSIVE SortedSeq(_)
SortedSeq(S) ==
    IF S = {} THEN <<>> ELSE <<Min(S)>> \o SortedSeq(S \ {Min(S)})

\* Every strictly ascending marker sequence with <= MaxMarkers markers.  A
\* round ends after the match has started: marker ticks are positive, which
\* is what the initial last_round_end_tick = 0 stands for.
MarkerInputs ==
    {SortedSeq(S) :
        S \in {T \in SUBSET (Ticks \ {0}) : Cardinality(T) <= MaxMarkers}}

\* Every strictly tick-ascending sample stream over Ticks with <= MaxSamples.
SampleInputs ==
    UNION {{[k \in 1 .. Len(SortedSeq(S)) |->
                [tick |-> SortedSeq(S)[k], is_alive |-> f[SortedSeq(S)[k]]]]
              : f \in [S -> BOOLEAN]}
           : S \in {T \in SUBSET Ticks : Cardinality(T) <= MaxSamples}}

NoError == [kind |-> "none", tick |-> None, steamid |-> None]

(* ------------------- get_player_alive_ranges -------------------------- *)
\* round_end_df[round_end_df.index > last].index
RoundEndTicksAfter(last) ==
    LET After(m) == m > last IN SelectSeq(round_end, After)

\* Variant of Crossed that already fires on the marker's own tick (>=).
CrossedAtMarker(t, round_end_ticks) ==
    Len(round_end_ticks) > 0 /\ t >= round_end_ticks[1]

\* len(round_end_ticks) > 0 and tick > round_end_ticks[0]
Crossed(t, round_end_ticks) ==
    Len(round_end_ticks) > 0 /\ t > round_end_ticks[1]

\* Variant of KeepRange that keeps a range of length exactly MAX_LEN (<=).
KeepRangeInclusive(rg) == rg[2] - rg[1] <= MAX_LEN

\* end - start < MAX_LEN
KeepRange(rg) == rg[2] - rg[1] < MAX_LEN

\* One iteration of "for tick, row in player_data.iterrows()".
LoopStep ==
    /\ pc = "loop"
    /\ i <= Len(player_data)
    /\ LET row == player_data[i]
           round_end_ticks == RoundEndTicksAfter(last_round_end_tick)
           crossed == Crossed(row.tick, round_end_ticks)
           ranges1 == IF crossed /\ start_tick # None
                      THEN Append(alive_ranges, <<start_tick, round_end_ticks[1]>>)
                      ELSE alive_ranges
           start1 == IF crossed THEN None ELSE start_tick
       IN  /\ last_round_end_tick' =
                IF crossed THEN round_end_ticks[1] ELSE last_round_end_tick
           /\ IF row.is_alive /\ start1 = None
              THEN /\ start_tick' = row.tick
                   /\ alive_ranges' = ranges1
              ELSE IF ~row.is_alive /\ start1 # None
              THEN /\ alive_ranges' = Append(ranges1, <<start1, row.tick - 1>>)
                   /\ start_tick' = None
              ELSE /\ start_tick' = start1
                   /\ alive_ranges' = ranges1
    /\ i' = i + 1
    /\ UNCHANGED <<player_data, round_end, ranges, r, tick, player_frames,
                   round_frames, players, error, pc>>

\* The range list after "if start_tick is not None: ..." (lines 55-57).
FinalRanges ==
    IF start_tick # None
    THEN LET last_round_end ==
                 IF Len(round_end) > 0
                 THEN round_end[Len(round_end)]
                 ELSE player_data[Len(player_data)].tick
         IN  Append(alive_ranges, <<start_tick, last_round_end>>)
    ELSE alive_ranges

\* End of the pass: close the open range, filter, return to
\* PlayerPOVs._parse_round_frames.
Finish ==
    /\ pc = "loop"
    /\ i > Len(player_data)
    /\ alive_ranges' = FinalRanges
    /\ ranges' = SelectSeq(FinalRanges, KeepRange)
    /\ start_tick' = start_tick
    /\ r' = 1
    /\ pc' = "rounds"
    /\ UNCHANGED <<player_data, round_end, i, last_round_end_tick, tick,
                   player_frames, round_frames, players, error>>

(* --------------------------- frame decoding --------------------------- *)
\* parser.parse_ticks(fields, players=[steamid], ticks=[tick]) is not empty
HasRow(t) == \E k \in 1 .. Len(player_data) : player_data[k].tick = t

Raise(kind, t) == [kind |-> kind, tick |-> t, steamid |-> SteamId]

\* PlayerInfoFrame.get_player_info
get_player_info(t) ==
    IF ~HasRow(t) THEN Raise("ValueError", t)
    ELSE [kind |-> "ok", tick |-> t, steamid |-> SteamId]

\* PlayerActionFrame.get_player_action: the class defines no __init__, so
\* the call PlayerActionFrame(wasd=..., ..., tick=tick) raises TypeError.
get_player_action(t) ==
    IF ~HasRow(t) THEN Raise("ValueError", t)
    ELSE Raise("TypeError", t)

\* PlayerFrame.__init__: status first, then action; an exception leaves.
PlayerFrame(t) ==
    LET info == get_player_info(t) IN
    IF info.kind # "ok" THEN info
    ELSE LET action == get_player_action(t) IN
         IF action.kind # "ok" THEN action
         ELSE [kind |-> "ok", tick |-> t, steamid |-> SteamId,
               player_info |-> info, player_action |-> action]

(* ------------------ PlayerRoundFrames / PlayerPOVs -------------------- *)
\* "for start, end in ranges": PlayerRoundFrames.__init__ up to the loop.
NextRange ==
    /\ pc = "rounds"
    /\ r <= Len(ranges)
    /\ tick' = ranges[r][1]
    /\ player_frames' = <<>>
    /\ pc' = "frames"
    /\ UNCHANGED <<player_data, round_end, i, start_tick, last_round_end_tick,
                   alive_ranges, ranges, r, round_frames, players, error>>

\* Variant of BuildFrame that swallows a decoding failure and goes on with
\* the next tick.
BuildFrameSwallow ==
    /\ pc = "frames"
    /\ tick <= ranges[r][2]
    /\ LET frame == PlayerFrame(tick) IN
         player_frames' = IF frame.kind = "ok"
                          THEN Append(player_frames, frame)
                          ELSE player_frames
    /\ tick' = tick + 1
    /\ UNCHANGED <<player_data, round_end, i, start_tick, last_round_end_tick,
                   alive_ranges, ranges, r, round_frames, players, error, pc>>

\* One iteration of "for tick in range(self.start_tick, self.end_tick + 1)".
BuildFrame ==
    /\ pc = "frames"
    /\ tick <= ranges[r][2]
    /\ LET frame == PlayerFrame(tick) IN
         IF frame.kind = "ok"
         THEN /\ player_frames' = Append(player_frames, frame)
              /\ tick' = tick + 1
              /\ UNCHANGED <<error, pc>>
         ELSE /\ error' = frame
              /\ pc' = "failed"
              /\ UNCHANGED <<player_frames, tick>>
    /\ UNCHANGED <<player_data, round_end, i, start_tick, last_round_end_tick,
                   alive_ranges, ranges, r, round_frames, players>>

\* The range's loop is over: self.round_frames.append(PlayerRoundFrames(...))
RoundDone ==
    /\ pc = "frames"
    /\ tick > ranges[r][2]
    /\ round_frames' = Append(round_frames,
                              [start_tick |-> ranges[r][1],
                               end_tick |-> ranges[r][2],
                               steamid |-> SteamId,
                               player_frames |-> player_frames])
    /\ r' = r + 1
    /\ pc' = "rounds"
    /\ UNCHANGED <<player_data, round_end, i, start_tick, last_round_end_tick,
                   alive_ranges, ranges, tick, player_frames, players, error>>

\* self.players[str(player.steamid)] = PlayerPOVs(...)
StorePlayer ==
    /\ pc = "rounds"
    /\ r > Len(ranges)
    /\ players' = [s \in {SteamId} |->
                     [steamid |-> SteamId, round_frames |-> round_frames]]
    /\ pc' = "done"
    /\ UNCHANGED <<player_data, round_end, i, start_tick, last_round_end_tick,
                   alive_ranges, ranges, r, tick, player_frames, round_frames,
                   error>>

Init ==
    /\ player_data \in SampleInputs
    /\ round_end \in MarkerInputs
    /\ i = 1
    /\ start_tick = None
    /\ last_round_end_tick = 0
    /\ alive_ranges = <<>>
    /\ ranges = <<>>
    /\ r = 1
    /\ tick = 0
    /\ player_frames = <<>>
    /\ round_frames = <<>>
    /\ players = <<>>
    /\ error = NoError
    /\ pc = "loop"

Next ==
    \/ LoopStep
    \/ Finish
    \/ NextRange
    \/ BuildFrame
    \/ RoundDone
    \/ StorePlayer

Spec == Init /\ [][Next]_vars

(* ------------- direct use of the decoders on any (player, tick) -------- *)
\* PlayerFrame(parser, steamid, t) called for an arbitrary tick t.
DecodeCall ==
    /\ pc = "decode"
    /\ \E t \in Ticks :
         /\ tick' = t
         /\ LET frame == PlayerFrame(t) IN
              IF frame.kind = "ok"
              THEN /\ player_frames' = <<frame>>
                   /\ error' = error
              ELSE /\ error' = frame
                   /\ player_frames' = player_frames
    /\ pc' = "decoded"
    /\ UNCHANGED <<player_data, round_end, i, start_tick, last_round_end_tick,
                   alive_ranges, ranges, r, round_frames, players>>

InitDecode ==
    /\ player_data \in SampleInputs
    /\ round_end \in MarkerInputs
    /\ i = 1
    /\ start_tick = None
    /\ last_round_end_tick = 0
    /\ alive_ranges = <<>>
    /\ ranges = <<>>
    /\ r = 1
    /\ tick = 0
    /\ player_frames = <<>>
    /\ round_frames = <<>>
    /\ players = <<>>
    /\ error = NoError
    /\ pc = "decode"

NextDecode == DecodeCall

SpecDecode == InitDecode /\ [][NextDecode]_vars

(* ============================ properties ============================== *)
\* get_player_alive_ranges has returned its list (variable ranges).
Returned == pc \in {"rounds", "frames", "done", "failed"}

\* The player's liveliness sample at tick t exists and is true.
AliveAt(t) ==
    \E k \in 1 .. Len(player_data) :
        player_data[k].tick = t /\ player_data[k].is_alive

IsMarker(m) == \E j \in 1 .. Len(round_end) : round_end[j] = m

InRange(t, rg) == rg[1] <= t /\ t <= rg[2]

\* C1: every returned range (start, end) has start <= end.
C1_StartLeEnd ==
    Returned => \A k \in 1 .. Len(ranges) : ranges[k][1] <= ranges[k][2]

\* C2: no round-end marker tick lies strictly inside a returned range.
C2_NoMarkerInside ==
    Returned =>
        \A k \in 1 .. Len(ranges) : \A j \in 1 .. Len(round_end) :
            ~(ranges[k][1] < round_end[j] /\ round_end[j] < ranges[k][2])

\* C3: the returned ranges are ascending by start tick and pairwise
\* non-overlapping: an earlier range starts and ends before a later one
\* starts.
C3_AscendingDisjoint ==
    Returned =>
        \A k \in 1 .. Len(ranges) : \A j \in 1 .. Len(ranges) :
            k < j => /\ ranges[k][1] < ranges[j][1]
                     /\ ranges[k][2] < ranges[j][1]

C3_Witness ==
    /\ Returned
    /\ Len(ranges) >= 2
    /\ \E k \in 1 .. Len(ranges) : IsMarker(ranges[k][2])

\* C4: apart from the ticks of ranges removed by the length filter, a tick
\* is inside a returned range exactly when the player's sample at that tick
\* is alive.
C4_CoverExactlyAlive ==
    Returned =>
        \A t \in Ticks :
            (~\E k \in 1 .. Len(alive_ranges) :
                  /\ alive_ranges[k][2] - alive_ranges[k][1] >= MAX_LEN
                  /\ InRange(t, alive_ranges[k]))
            => ((\E k \in 1 .. Len(ranges) : InRange(t, ranges[k])) <=> AliveAt(t))

\* C5: every PlayerRoundFrames that was built holds end - start + 1 frames,
\* whose ticks are start, start + 1, ..., end in this order, each frame's
\* status and action sub-frames carrying the frame's tick.
C5_RoundFramesDense ==
    \A k \in 1 .. Len(round_frames) :
        LET rf == round_frames[k] IN
        /\ Len(rf.player_frames) = rf.end_tick - rf.start_tick + 1
        /\ \A j \in 1 .. Len(rf.player_frames) :
              /\ rf.player_frames[j].tick = rf.start_tick + j - 1
              /\ rf.player_frames[j].player_info.tick = rf.player_frames[j].tick
              /\ rf.player_frames[j].player_action.tick = rf.player_frames[j].tick

\* C6: when the player is alive on every tick from s (where an alive stretch
\* begins) through a marker m and on m + 1, the range (s, m) is returned and
\* so is a range that starts at m + 1 and holds the alive tick m + 1.
C6_ClippedAtMarker ==
    Returned =>
        \A s \in Ticks : \A m \in Ticks :
            (/\ s <= m
             /\ IsMarker(m)
             /\ ~AliveAt(s - 1)
             /\ \A t \in s .. (m + 1) : AliveAt(t))
            => /\ \E k \in 1 .. Len(ranges) : ranges[k] = <<s, m>>
               /\ \E k \in 1 .. Len(ranges) :
                      ranges[k][1] = m + 1 /\ ranges[k][2] >= m + 1

\* C7: decoding one (player, tick) pair yields one status frame and one
\* action frame for that pair when the source has a row for it; it fails only
\* when there is no row, with the not-found error naming the pair.
C7_DecodeOrNotFound ==
    pc = "decoded" =>
        IF HasRow(tick)
        THEN /\ error = NoError
             /\ Len(player_frames) = 1
             /\ player_frames[1].player_info.tick = tick
             /\ player_frames[1].player_action.tick = tick
        ELSE /\ player_frames = <<>>
             /\ error = [kind |-> "ValueError", tick |-> tick, steamid |-> SteamId]

\* A stored round holds one decoded frame for every tick of its range.
Complete(rf) ==
    /\ Len(rf.player_frames) = Cardinality(rf.start_tick .. rf.end_tick)
    /\ \A j \in 1 .. Len(rf.player_frames) :
          /\ rf.player_frames[j].kind = "ok"
          /\ rf.player_frames[j].tick = rf.start_tick + j - 1

\* C8: a round or a POV is stored only when every tick of it was decoded;
\* once decoding fails the construction stops for good, nothing of the round
\* under construction or of the player's POV is stored, and the error is
\* that of the first tick, in ascending order, whose decoding fails.
C8_NoPartialBuild ==
    /\ \A k \in 1 .. Len(round_frames) : Complete(round_frames[k])
    /\ \A s \in DOMAIN players :
          /\ Len(players[s].round_frames) = Len(ranges)
          /\ \A k \in 1 .. Len(ranges) :
                /\ Complete(players[s].round_frames[k])
                /\ players[s].round_frames[k].start_tick = ranges[k][1]
                /\ players[s].round_frames[k].end_tick = ranges[k][2]
    /\ (pc \in {"done", "rounds"} => error = NoError)
    /\ pc = "failed" =>
          /\ DOMAIN players = {}
          /\ Len(round_frames) = r - 1
          /\ ~ENABLED Next
          /\ InRange(error.tick, ranges[r])
          /\ PlayerFrame(error.tick) = error
          /\ error.kind # "ok"
          /\ \A t \in ranges[r][1] .. (error.tick - 1) : PlayerFrame(t).kind = "ok"

C8_Witness ==
    /\ pc = "failed"
    /\ Len(round_frames) >= 1
    /\ error.kind # "none"

\* C9: every returned range has end - start < 24320, and the returned list is
\* the list of collected ranges with exactly the ranges of length >= 24320
\* left out, the others unchanged and in order.
C9_SanityBound ==
    Returned =>
        LET Kept == {j \in 1 .. Len(alive_ranges) :
                        alive_ranges[j][2] - alive_ranges[j][1] < 24320}
        IN  /\ \A k \in 1 .. Len(ranges) : ranges[k][2] - ranges[k][1] < 24320
            /\ Len(ranges) = Cardinality(Kept)
            /\ \A k \in 1 .. Len(ranges) :
                  \E j \in Kept :
                      /\ Cardinality({x \in Kept : x < j}) = k - 1
                      /\ ranges[k] = alive_ranges[j]

C9_Witness ==
    /\ Returned
    /\ Len(ranges) >= 1
    /\ \E j \in 1 .. Len(alive_ranges) :
          /\ alive_ranges[j][2] - alive_ranges[j][1] >= 24320
          /\ j < Len(alive_ranges)

\* C10: a range still open after the pass ends at the last round-end marker
\* only if a marker exists after last_round_end_tick, and at the player's
\* last observed tick otherwise.
C10_FinalRangeEnd ==
    (Returned /\ start_tick # None) =>
        alive_ranges[Len(alive_ranges)] =
            <<start_tick,
              IF \E j \in 1 .. Len(round_end) : round_end[j] > last_round_end_tick
              THEN round_end[Len(round_end)]
              ELSE player_data[Len(player_data)].tick>>

====
